---- MODULE Spec2Model ----
(***************************************************************************)
(* Model of the upload path of object-storage-sdk:                         *)
(*   - waitForDrain            (src/src/util.ts)                           *)
(*   - _pipeReqeuest, _fetch   (src/src/common.ts, BaseObjectStorageSDK)   *)
(* One _fetch call is modelled together with the body relay it starts, the *)
(* source stream (body), the sink (the ClientRequest req), the drain       *)
(* waiter and the process.nextTick queue.  Every action is one callback of *)
(* the single-threaded event loop, run to completion.                      *)
(***************************************************************************)
EXTENDS Integers, Sequences, FiniteSets, TLC

\* ---------------------------------------------------------------- bounds
MaxChunks == 2        \* chunks the source emits at most
MaxChunkLen == 2      \* longest chunk, in bytes
MaxLimit == 2         \* largest configured limit

\* The k-th chunk the source emits: a non-empty Buffer of n bytes.  The relay
\* never inspects the bytes (only chunk.length), so each byte carries the index
\* of its chunk, which keeps chunks of different positions distinguishable.
Chunk(k, n) == [j \in 1..n |-> k]

\* options.limit: absent (undefined) or a number, passed through unchecked
\* from WriteObjectOptions.limit.
Limits == {[given |-> FALSE, n |-> 0]} \cup {[given |-> TRUE, n |-> k] : k \in (-1)..MaxLimit}

\* ---------------------------------------------------------------- values
NoErr == "none"
ABORTED_ERR == "aborted"
TOO_LARGE_ERR == "too_large"
TIMEOUT_ERROR == "waitForDrain timeout"
CLOSED_ERR == "closed"
SRC_ERR == "source error"
REQ_ERR == "request error"
PUMP_ERR == "pump error"
STATUS_ERR == "status message"
DECODE_ERR == "decode error"
HASH_EMPTY_ERR == "unexpected error: calculated hash is empty"

NoHash == <<>>              \* null / undefined
NoResult == "null"
\* What getBody decodes: a payload without an Error member, or a provider error
\* document whose Error.Code is 'NoSuchKey' or another code.
Payloads == {"decoded", "Error:NoSuchKey", "Error:Other"}

\* BaseSDKConfig.timeout: absent, or a number of milliseconds.
Timeouts == {[given |-> FALSE, n |-> 0], [given |-> TRUE, n |-> 5000]}

DEFAULT_TIMEOUT == 30000        \* config.timeout || 30000
DEFAULT_DRAIN_TIMEOUT == 10000  \* waitForDrain(s, timeout = 10000)

VARIABLES
  opts,          \* FetchOptions of the call: hasBody, limit, calcHash, returnStream
  config,        \* BaseSDKConfig.timeout the SDK instance was constructed with
  \* --- _pipeReqeuest locals
  complete,      \* let complete
  received,      \* let received
  hashFed,       \* bytes fed to hash.update so far
  listeners,     \* the nine ctx listeners are attached to body and req
  relayCalls,    \* invocations of the relay's callback: <<[err, hash]>>
  \* --- source stream (body)
  emitted,       \* chunks emitted by 'data' so far
  flowing,       \* body is in flowing mode (not paused)
  srcEv,         \* terminal-ish events body has emitted
  pauses,        \* calls of body.pause()
  resumes,       \* calls of body.resume()
  srcDestroyed,  \* body.destroy() was called
  \* --- sink (req)
  written,       \* chunks passed to req.write
  saturations,   \* req.write calls that returned false
  needDrain,     \* a write returned false and 'drain' was not emitted since
  sinkEnded,     \* req.end() was called
  sinkDestroyed, \* req.destroy() was called
  sinkEv,        \* events req has emitted
  \* --- waitForDrain
  waiter,        \* "none" | "armed" | "ready" | "failed"
  waiterErr,     \* rejection reason when waiter = "failed"
  timedOut,      \* the drain timer fired while armed
  \* --- _fetch locals
  done,          \* let done
  hash,          \* let hash
  reqErrListener,\* onReqErr is attached to req 'error'
  resp,          \* "none" | "errBody" | "okBody" | "handled"
  status,        \* res.statusCode of the response: "none" | "ok" (2xx) | "bad"
  tickQueue,     \* callbacks queued with process.nextTick
  calls,         \* invocations of the caller's callback
  \* --- a second invocation of _pipeReqeuest of the same SDK instance
  other,         \* its arguments, closure locals and streams, as a record
  \* --- one getBody(res, contentType, callback) call
  decode,        \* its inputs, the invocations of its callback, what it threw
  \* --- one MinioObjectStorageSDK.writeObject call
  minio          \* its options, locals, the source req and the uploaded stream

relayVars == <<complete, received, hashFed, listeners, relayCalls>>
srcVars == <<emitted, flowing, srcEv, pauses, resumes, srcDestroyed>>
sinkVars == <<written, saturations, needDrain, sinkEnded, sinkDestroyed, sinkEv>>
waitVars == <<waiter, waiterErr, timedOut>>
fetchVars == <<done, hash, reqErrListener, resp, status, tickQueue, calls>>
callVars == <<opts, relayVars, srcVars, sinkVars, waitVars, fetchVars>>
vars == <<opts, config, relayVars, srcVars, sinkVars, waitVars, fetchVars, other, decode,
         minio>>

\* ---------------------------------------------------------------- helpers
\* JavaScript !limit : undefined and 0 are falsy.
Falsy(l) == ~l.given \/ l.n = 0

\* a size check that lets one byte more than the limit pass
ExceedsOffByOne(r, l) == l.given /\ r > l.n + 1

\* JavaScript received > limit : a comparison with undefined is false.
Exceeds(r, l) == l.given /\ r > l.n

RECURSIVE Concat(_)
Concat(cs) == IF cs = <<>> THEN <<>> ELSE Head(cs) \o Concat(Tail(cs))

RECURSIVE TotalLen(_)
TotalLen(cs) == IF cs = <<>> THEN 0 ELSE Len(Head(cs)) + TotalLen(Tail(cs))

\* hash.digest('hex'): an idealised (collision-free) digest of the bytes fed.
Digest(bytes) == <<bytes>>

\* this._timeout as the constructor sets it, with 10000 for the default
SdkTimeoutTen(cfg) == IF Falsy(cfg) THEN DEFAULT_DRAIN_TIMEOUT ELSE cfg.n

\* this._timeout = config.timeout || 30000
SdkTimeout(cfg) == IF Falsy(cfg) THEN DEFAULT_TIMEOUT ELSE cfg.n

\* The timeout parameter of waitForDrain(s, timeout = 10000): the default
\* applies when the argument is undefined.
WaitForDrainTimeout(arg) == IF ~arg.given THEN DEFAULT_DRAIN_TIMEOUT ELSE arg.n

\* The delay of the timer of waitForDrain(req, TIMEOUT), TIMEOUT = this._timeout.
DrainDeadline == WaitForDrainTimeout([given |-> TRUE, n |-> SdkTimeout(config)])

\* Which branch _pipeReqeuest / _fetch takes for the request body.
RelayPath ==
  IF ~opts.hasBody THEN "none"
  ELSE IF Falsy(opts.limit) /\ ~opts.calcHash THEN "pump"
  ELSE "explicit"

\* The closure state of one _fetch call: done, hash, the callbacks it queued with
\* process.nextTick and the invocations of the caller's callback so far.
F == [done |-> done, hash |-> hash, queue |-> tickQueue, calls |-> calls]
SetF(f) == done' = f.done /\ hash' = f.hash /\ tickQueue' = f.queue /\ calls' = f.calls

\* ---------------------------------------------------------------- _fetch
\* finish without its "if (done) return"
FinishNoGuard(f, err, result) ==
  IF err = NoErr /\ opts.calcHash /\ f.hash = NoHash
    THEN [f EXCEPT !.queue = Append(@, [err |-> HASH_EMPTY_ERR, result |-> NoResult, withHash |-> FALSE])]
    ELSE [f EXCEPT !.done = TRUE,
                   !.queue = Append(@, [err |-> err, result |-> result, withHash |-> TRUE])]

\* finish invoking the caller's callback directly instead of process.nextTick
FinishSync(f, err, result) ==
  IF f.done THEN f
  ELSE IF err = NoErr /\ opts.calcHash /\ f.hash = NoHash
    THEN [f EXCEPT !.calls = Append(@, [err |-> HASH_EMPTY_ERR, result |-> NoResult, hash |-> NoHash])]
    ELSE [f EXCEPT !.done = TRUE,
                   !.calls = Append(@, [err |-> err, result |-> result, hash |-> f.hash])]

\* finish without the test for a requested but empty hash
FinishNoHashCheck(f, err, result) ==
  IF f.done THEN f
  ELSE [f EXCEPT !.done = TRUE,
                 !.queue = Append(@, [err |-> err, result |-> result, withHash |-> TRUE])]

\* function finish(err, result) of _fetch, on the closure state f.
Finish(f, err, result) ==
  IF f.done THEN f
  ELSE IF err = NoErr /\ opts.calcHash /\ f.hash = NoHash
    THEN [f EXCEPT !.queue = Append(@, [err |-> HASH_EMPTY_ERR, result |-> NoResult, withHash |-> FALSE])]
    ELSE [f EXCEPT !.done = TRUE,
                   !.queue = Append(@, [err |-> err, result |-> result, withHash |-> TRUE])]

\* the relay callback storing bodyHash before it looks at err
RelayCallbackKeepHash(f, err, bodyHash) ==
  IF f.done THEN f
  ELSE IF err # NoErr THEN Finish([f EXCEPT !.hash = bodyHash], err, NoResult)
  ELSE [f EXCEPT !.hash = bodyHash]

\* The callback _fetch hands to _pipeReqeuest.
RelayCallback(f, err, bodyHash) ==
  IF f.done THEN f
  ELSE IF err # NoErr THEN Finish(f, err, NoResult)
  ELSE [f EXCEPT !.hash = bodyHash]

\* function onReqErr(err) of _fetch (the listener removes itself).
OnReqErr(f, err) == Finish(f, err, NoResult)

\* ---------------------------------------------------------------- _pipeReqeuest
Skip(f) ==
  /\ UNCHANGED <<complete, sinkDestroyed, listeners, relayCalls>>
  /\ SetF(f)

\* ctx.done(err) followed by ctx.cleanup() and the callback.
CtxDone(err, f) ==
  /\ complete' = TRUE
  /\ sinkDestroyed' = (sinkDestroyed \/ err # NoErr)
  /\ listeners' = FALSE
  /\ LET h == IF opts.calcHash THEN Digest(hashFed) ELSE NoHash IN
       /\ relayCalls' = Append(relayCalls, [err |-> err, hash |-> h, respAt |-> resp])
       /\ SetF(RelayCallback(f, err, h))

CtxOnAborted(f) == IF complete THEN Skip(f) ELSE CtxDone(ABORTED_ERR, f)

CtxOnClose(f) == IF complete THEN Skip(f) ELSE CtxDone(NoErr, f)

CtxOnError(err, f) == IF complete THEN Skip(f) ELSE CtxDone(err, f)

CtxOnEnd(f) ==
  IF complete THEN Skip(f) /\ UNCHANGED sinkEnded
  ELSE sinkEnded' = TRUE /\ CtxDone(NoErr, f)

\* ctx.onData without the return after ctx.done(TOO_LARGE_ERR)
CtxOnDataNoReturn(chunk, sat) ==
  IF complete
  THEN /\ Skip(F)
       /\ UNCHANGED <<received, hashFed, written, saturations, needDrain, flowing, pauses, waiter>>
  ELSE /\ received' = received + Len(chunk)
       /\ IF Exceeds(received', opts.limit) THEN CtxDone(TOO_LARGE_ERR, F) ELSE Skip(F)
       /\ hashFed' = hashFed
       /\ written' = Append(written, chunk)
       /\ UNCHANGED <<saturations, needDrain, flowing, pauses, waiter>>

\* ctx.onData feeding the hash only when req.write returned true
CtxOnDataHashAfterWrite(chunk, sat) ==
  IF complete
  THEN /\ Skip(F)
       /\ UNCHANGED <<received, hashFed, written, saturations, needDrain, flowing, pauses, waiter>>
  ELSE /\ received' = received + Len(chunk)
       /\ IF Exceeds(received', opts.limit)
          THEN /\ CtxDone(TOO_LARGE_ERR, F)
               /\ UNCHANGED <<hashFed, written, saturations, needDrain, flowing, pauses, waiter>>
          ELSE /\ hashFed' = IF opts.calcHash /\ ~sat THEN hashFed \o chunk ELSE hashFed
               /\ written' = Append(written, chunk)
               /\ IF sat
                  THEN /\ saturations' = saturations + 1
                       /\ needDrain' = TRUE
                       /\ flowing' = FALSE
                       /\ pauses' = pauses + 1
                       /\ waiter' = "armed"
                  ELSE UNCHANGED <<saturations, needDrain, flowing, pauses, waiter>>
               /\ Skip(F)

\* ctx.onData waiting for drain without body.pause()
CtxOnDataNoPause(chunk, sat) ==
  IF complete
  THEN /\ Skip(F)
       /\ UNCHANGED <<received, hashFed, written, saturations, needDrain, flowing, pauses, waiter>>
  ELSE /\ received' = received + Len(chunk)
       /\ IF Exceeds(received', opts.limit)
          THEN /\ CtxDone(TOO_LARGE_ERR, F)
               /\ UNCHANGED <<hashFed, written, saturations, needDrain, flowing, pauses, waiter>>
          ELSE /\ hashFed' = IF opts.calcHash THEN hashFed \o chunk ELSE hashFed
               /\ written' = Append(written, chunk)
               /\ IF sat
                  THEN /\ saturations' = saturations + 1
                       /\ needDrain' = TRUE
                       /\ waiter' = "armed"
                       /\ UNCHANGED <<flowing, pauses>>
                  ELSE UNCHANGED <<saturations, needDrain, flowing, pauses, waiter>>
               /\ Skip(F)

\* ctx.onData calling hash.update(chunk) before the size check
CtxOnDataHashBeforeCheck(chunk, sat) ==
  IF complete
  THEN /\ Skip(F)
       /\ UNCHANGED <<received, hashFed, written, saturations, needDrain, flowing, pauses, waiter>>
  ELSE /\ received' = received + Len(chunk)
       /\ hashFed' = IF opts.calcHash THEN hashFed \o chunk ELSE hashFed
       /\ IF Exceeds(received', opts.limit)
          THEN /\ complete' = TRUE
               /\ sinkDestroyed' = TRUE
               /\ listeners' = FALSE
               /\ LET h == IF opts.calcHash THEN Digest(hashFed') ELSE NoHash IN
                    /\ relayCalls' = Append(relayCalls,
                                            [err |-> TOO_LARGE_ERR, hash |-> h, respAt |-> resp])
                    /\ SetF(RelayCallback(F, TOO_LARGE_ERR, h))
               /\ UNCHANGED <<written, saturations, needDrain, flowing, pauses, waiter>>
          ELSE /\ written' = Append(written, chunk)
               /\ IF sat
                  THEN /\ saturations' = saturations + 1
                       /\ needDrain' = TRUE
                       /\ flowing' = FALSE
                       /\ pauses' = pauses + 1
                       /\ waiter' = "armed"
                  ELSE UNCHANGED <<saturations, needDrain, flowing, pauses, waiter>>
               /\ Skip(F)

\* ctx.onData(chunk); sat is the negated return value of req.write(chunk).
CtxOnData(chunk, sat) ==
  IF complete
  THEN /\ Skip(F)
       /\ UNCHANGED <<received, hashFed, written, saturations, needDrain, flowing, pauses, waiter>>
  ELSE /\ received' = received + Len(chunk)
       /\ IF Exceeds(received', opts.limit)
          THEN /\ CtxDone(TOO_LARGE_ERR, F)
               /\ UNCHANGED <<hashFed, written, saturations, needDrain, flowing, pauses, waiter>>
          ELSE /\ hashFed' = IF opts.calcHash THEN hashFed \o chunk ELSE hashFed
               /\ written' = Append(written, chunk)
               /\ IF sat
                  THEN /\ saturations' = saturations + 1
                       /\ needDrain' = TRUE
                       /\ flowing' = FALSE
                       /\ pauses' = pauses + 1
                       /\ waiter' = "armed"
                  ELSE UNCHANGED <<saturations, needDrain, flowing, pauses, waiter>>
               /\ Skip(F)

\* ---------------------------------------------------------------- waitForDrain
\* listeners without "if (done) return" and without ctx.clear(): the last
\* trigger decides
WaiterSettleNoClear(state, err) ==
  IF waiter \in {"armed", "ready", "failed"}
  THEN waiter' = state /\ waiterErr' = err
  ELSE UNCHANGED <<waiter, waiterErr>>

\* A listener of the armed waiter fires: ctx.clear() and resolve()/reject(err).
\* The promise reaction (WaiterThen) runs later, as a microtask.
WaiterSettle(state, err) ==
  IF waiter = "armed"
  THEN waiter' = state /\ waiterErr' = err
  ELSE UNCHANGED <<waiter, waiterErr>>

\* onFulfilled of waitForDrain(req, TIMEOUT).then(...) in ctx.onData
WaiterResolved ==
  IF complete
  THEN UNCHANGED <<flowing, resumes>>
  ELSE flowing' = TRUE /\ resumes' = resumes + 1

\* onRejected without its "if (complete) return"
WaiterRejectedNoGuard(err) == CtxDone(err, F)

\* onRejected that drops the rejection
WaiterRejectedDrop(err) == Skip(F)

\* onRejected reporting every rejection as an abort
WaiterRejectedAsAbort(err) == IF complete THEN Skip(F) ELSE CtxDone(ABORTED_ERR, F)

\* onRejected of waitForDrain(req, TIMEOUT).then(...) in ctx.onData
WaiterRejected(err) == IF complete THEN Skip(F) ELSE CtxDone(err, F)

\* ---------------------------------------------------------------- source events
\* An event nobody listens to changes nothing in the program; the terminal
\* events of body, and 'end' and 'aborted' of req, are modelled while a listener
\* of the relay (or of the drain waiter) is attached to them.
Idle == tickQueue = <<>>     \* process.nextTick callbacks run before any other event

SrcData(chunk, sat) ==
  /\ Idle /\ RelayPath = "explicit"
  /\ flowing /\ srcEv = {} /\ Len(emitted) < MaxChunks
  /\ emitted' = Append(emitted, chunk)
  /\ IF listeners
     THEN CtxOnData(chunk, sat)
     ELSE /\ Skip(F)
          /\ UNCHANGED <<received, hashFed, written, saturations, needDrain, flowing, pauses, waiter>>
  /\ UNCHANGED <<opts, config, other, decode, minio, srcEv, resumes, srcDestroyed, sinkEnded, sinkEv, waiterErr, timedOut,
                 reqErrListener, resp, status>>

SrcEnd ==
  /\ Idle /\ RelayPath = "explicit" /\ listeners
  /\ flowing /\ srcEv = {}
  /\ srcEv' = {"end"}
  /\ CtxOnEnd(F)
  /\ UNCHANGED <<opts, config, other, decode, minio, received, hashFed, emitted, flowing, pauses, resumes, srcDestroyed,
                 written,
                 saturations, needDrain, sinkEv, waitVars, reqErrListener, resp, status>>

SrcAborted ==
  /\ Idle /\ RelayPath = "explicit" /\ listeners
  /\ srcEv = {}
  /\ srcEv' = {"aborted"}
  /\ CtxOnAborted(F)
  /\ UNCHANGED <<opts, config, other, decode, minio, received, hashFed, emitted, flowing, pauses, resumes, srcDestroyed,
                 written,
                 saturations, needDrain, sinkEnded, sinkEv, waitVars, reqErrListener,
                 resp, status>>

SrcError ==
  /\ Idle /\ RelayPath = "explicit" /\ listeners
  /\ srcEv \cap {"error", "end", "close"} = {}
  /\ srcEv' = srcEv \cup {"error"}
  /\ CtxOnError(SRC_ERR, F)
  /\ UNCHANGED <<opts, config, other, decode, minio, received, hashFed, emitted, flowing, pauses, resumes, srcDestroyed,
                 written,
                 saturations, needDrain, sinkEnded, sinkEv, waitVars, reqErrListener,
                 resp, status>>

SrcClose ==
  /\ Idle /\ RelayPath = "explicit" /\ listeners
  /\ "close" \notin srcEv
  /\ srcEv' = srcEv \cup {"close"}
  /\ CtxOnClose(F)
  /\ UNCHANGED <<opts, config, other, decode, minio, received, hashFed, emitted, flowing, pauses, resumes, srcDestroyed,
                 written,
                 saturations, needDrain, sinkEnded, sinkEv, waitVars, reqErrListener,
                 resp, status>>

\* ---------------------------------------------------------------- sink events
\* req emits 'error': onReqErr (attached first), then ctx.onError, then the
\* waiter's onError, in registration order.
SinkError ==
  /\ Idle
  /\ sinkEv \cap {"error", "close"} = {}
  /\ sinkEv' = sinkEv \cup {"error"}
  /\ reqErrListener' = FALSE
  /\ LET f1 == IF reqErrListener THEN OnReqErr(F, REQ_ERR) ELSE F IN
       IF listeners THEN CtxOnError(REQ_ERR, f1) ELSE Skip(f1)
  /\ WaiterSettle("failed", REQ_ERR)
  /\ UNCHANGED <<opts, config, other, decode, minio, received, hashFed, srcVars, written, saturations, needDrain,
                 sinkEnded, timedOut, resp, status>>

SinkClose ==
  /\ Idle
  /\ "close" \notin sinkEv
  /\ sinkEv' = sinkEv \cup {"close"}
  /\ IF listeners THEN CtxOnClose(F) ELSE Skip(F)
  /\ WaiterSettle("failed", CLOSED_ERR)
  /\ UNCHANGED <<opts, config, other, decode, minio, received, hashFed, srcVars, written, saturations, needDrain,
                 sinkEnded, timedOut, reqErrListener, resp, status>>

SinkEnd ==
  /\ Idle /\ (listeners \/ waiter = "armed")
  /\ sinkEv \cap {"end", "close"} = {}
  /\ sinkEv' = sinkEv \cup {"end"}
  /\ IF listeners THEN CtxOnEnd(F) ELSE Skip(F) /\ UNCHANGED sinkEnded
  /\ WaiterSettle("ready", NoErr)
  /\ UNCHANGED <<opts, config, other, decode, minio, received, hashFed, srcVars, written, saturations, needDrain,
                 timedOut, reqErrListener, resp, status>>

SinkAborted ==
  /\ Idle /\ listeners
  /\ sinkEv \cap {"aborted", "close"} = {}
  /\ sinkEv' = sinkEv \cup {"aborted"}
  /\ CtxOnAborted(F)
  /\ UNCHANGED <<opts, config, other, decode, minio, received, hashFed, srcVars, written, saturations, needDrain,
                 sinkEnded, waitVars, reqErrListener, resp, status>>

SinkDrain ==
  /\ Idle
  /\ needDrain /\ ~sinkDestroyed /\ sinkEv \cap {"error", "close"} = {}
  /\ needDrain' = FALSE
  /\ WaiterSettle("ready", NoErr)
  /\ UNCHANGED <<opts, config, other, decode, minio, relayVars, srcVars, written, saturations, sinkEnded,
                 sinkDestroyed, sinkEv, timedOut, fetchVars>>

\* The setTimeout callback of waitForDrain; the rejection reaction runs in the
\* microtask checkpoint right after the timer callback.
TimerFire ==
  /\ Idle
  /\ waiter = "armed"
  /\ waiter' = "none" /\ waiterErr' = NoErr
  /\ timedOut' = TRUE
  /\ WaiterRejected(TIMEOUT_ERROR)
  /\ UNCHANGED <<opts, config, other, decode, minio, received, hashFed, srcVars, written, saturations, needDrain,
                 sinkEnded, sinkEv, reqErrListener, resp, status>>

\* The promise reaction of a waiter settled by a sink event.
WaiterThen ==
  /\ Idle
  /\ waiter \in {"ready", "failed"}
  /\ waiter' = "none" /\ waiterErr' = NoErr
  /\ IF waiter = "ready"
     THEN WaiterResolved /\ Skip(F)
     ELSE WaiterRejected(waiterErr) /\ UNCHANGED <<flowing, resumes>>
  /\ UNCHANGED <<opts, config, other, decode, minio, received, hashFed, emitted, srcEv, pauses, srcDestroyed, written, saturations,
                 needDrain, sinkEnded, sinkEv, timedOut, reqErrListener, resp, status>>

\* pump(body, req, cb) on the fast path calls back once: without error when
\* both streams finished, with the error req emitted, or with pump's own error
\* (premature close, source error); on an error pump destroys both streams.
PumpCallback(err) ==
  /\ Idle /\ RelayPath = "pump"
  /\ relayCalls = <<>>
  /\ err = NoErr => (sinkEv = {} /\ ~sinkDestroyed)
  /\ err = REQ_ERR <=> "error" \in sinkEv
  /\ relayCalls' = Append(relayCalls, [err |-> err, hash |-> NoHash, respAt |-> resp])
  /\ SetF(RelayCallback(F, err, NoHash))
  /\ sinkEnded' = (err = NoErr)
  /\ sinkDestroyed' = (sinkDestroyed \/ err # NoErr)
  /\ srcDestroyed' = (srcDestroyed \/ err # NoErr)
  /\ UNCHANGED <<opts, config, other, decode, minio, complete, received, hashFed, listeners, emitted, flowing, srcEv,
                 pauses, resumes, written,
                 saturations, needDrain, sinkEv, waitVars, reqErrListener, resp, status>>

\* ---------------------------------------------------------------- response
\* the response handler testing returnStream before the status code
ResponseHandlerStreamFirst(ok) ==
  /\ Idle
  /\ resp = "none" /\ ~sinkDestroyed /\ sinkEv \cap {"error", "close"} = {}
  /\ status' = IF ok THEN "ok" ELSE "bad"
  /\ IF opts.returnStream THEN resp' = "handled" /\ SetF(Finish(F, NoErr, "stream"))
     ELSE IF ~ok THEN resp' = "errBody" /\ SetF(F)
     ELSE resp' = "okBody" /\ SetF(F)
  /\ UNCHANGED <<opts, config, other, decode, minio, relayVars, srcVars, sinkVars, waitVars, reqErrListener>>

\* The response callback of request(...): ok is 200 <= statusCode < 300.
ResponseHandler(ok) ==
  /\ Idle
  /\ resp = "none" /\ ~sinkDestroyed /\ sinkEv \cap {"error", "close"} = {}
  /\ status' = IF ok THEN "ok" ELSE "bad"
  /\ IF ~ok THEN resp' = "errBody" /\ SetF(F)
     ELSE IF ~opts.returnStream THEN resp' = "okBody" /\ SetF(F)
     ELSE resp' = "handled" /\ SetF(Finish(F, NoErr, "stream"))
  /\ UNCHANGED <<opts, config, other, decode, minio, relayVars, srcVars, sinkVars, waitVars, reqErrListener>>

\* The callback getBody is given by the response handler; err and result are
\* what getBody reports (result "null": an empty body, decoded nothing).
GetBodyCallback(err, result) ==
  /\ Idle
  /\ resp \in {"errBody", "okBody"}
  /\ resp' = "handled"
  /\ LET r == IF err # NoErr THEN NoResult ELSE result IN
       IF resp = "errBody"
       THEN SetF(Finish(F, STATUS_ERR, r))
       ELSE SetF(Finish(F, err, r))
  /\ UNCHANGED <<opts, config, other, decode, minio, relayVars, srcVars, sinkVars, waitVars, reqErrListener, status>>

\* process.nextTick(() => callback(...)) runs.
Tick ==
  /\ tickQueue # <<>>
  /\ LET t == Head(tickQueue) IN
       calls' = Append(calls, [err |-> t.err, result |-> t.result,
                               hash |-> IF t.withHash THEN hash ELSE NoHash])
  /\ tickQueue' = Tail(tickQueue)
  /\ UNCHANGED <<opts, config, other, decode, minio, relayVars, srcVars, sinkVars, waitVars, done, hash,
                 reqErrListener, resp, status>>

\* ---------------------------------------------------------------- providers
\* readObject resolving null for every decoded Error payload
ReadObjectAnyErrorNull(err, result) ==
  IF err = NoErr THEN "resolved"
  ELSE IF result \notin {"Error:NoSuchKey", "Error:Other"} THEN "rejected"
  ELSE "null"

\* The callback readObject passes to _fetch: how it settles the promise.
ReadObject(err, result) ==
  IF err = NoErr THEN "resolved"
  ELSE IF result \notin {"Error:NoSuchKey", "Error:Other"} THEN "rejected"
  ELSE IF result = "Error:NoSuchKey" THEN "null"
  ELSE "rejected"

\* The promise readObject returned: settled by the first callback of _fetch.
ReadObjectPromise ==
  IF calls = <<>> THEN "pending" ELSE ReadObject(calls[1].err, calls[1].result)

\* ---------------------------------------------------------------- getBody
UNSUPPORTED_ERR == "unsupported content-type"
TYPE_ERROR == "TypeError"     \* thrown by contentType.indexOf on undefined

\* res.headers['content-type']: absent, or a string, written as the sequence of
\* its pieces (a media type, the separator ";", a parameter).
ContentTypes ==
  {[given |-> FALSE, s |-> <<>>]} \cup
  {[given |-> TRUE, s |-> t] :
     t \in {<<>>, <<"application/xml">>, <<"application/json">>, <<"text/plain">>,
            <<"application/xml", ";", "charset=utf-8">>,
            <<"application/json", ";", "charset=utf-8">>,
            <<"text/plain", ";", "charset=utf-8">>,
            <<";", "application/json">>}}

\* The text getRawBody read: empty, an XML document, a JSON document, or text
\* that is neither.
Bodies == {"", "xml", "json", "garbage"}

\* contentType.indexOf(';'): the position of the first ";", -1 without one.
IndexOf(s, t) ==
  IF \E i \in 1..Len(s) : s[i] = t
  THEN (CHOOSE i \in 1..Len(s) : s[i] = t /\ \A j \in 1..(i - 1) : s[j] # t) - 1
  ELSE -1

\* if (i > 0) contentType = contentType.slice(0, i)
StripParams(s) == LET i == IndexOf(s, ";") IN IF i > 0 THEN SubSeq(s, 1, i) ELSE s

\* getBody(res, contentType, callback): the invocations of callback and the
\* exception thrown out of the getRawBody callback, for the error getRawBody
\* reports (rawErr), the text it read and the content type.
GetBody(rawErr, body, ct) ==
  IF rawErr THEN [calls |-> <<[err |-> DECODE_ERR, result |-> NoResult]>>, thrown |-> NoErr]
  ELSE IF body = "" THEN [calls |-> <<[err |-> NoErr, result |-> NoResult]>>, thrown |-> NoErr]
  ELSE IF ~ct.given THEN [calls |-> <<>>, thrown |-> TYPE_ERROR]
  ELSE LET t == StripParams(ct.s) IN
         IF t = <<"application/xml">>
         THEN [calls |-> <<IF body = "xml" THEN [err |-> NoErr, result |-> "decoded"]
                           ELSE [err |-> DECODE_ERR, result |-> NoResult]>>,
               thrown |-> NoErr]
         ELSE IF t = <<"application/json">>
         THEN [calls |-> <<IF body = "json" THEN [err |-> NoErr, result |-> "decoded"]
                           ELSE [err |-> DECODE_ERR, result |-> NoResult]>>,
               thrown |-> NoErr]
         ELSE [calls |-> <<[err |-> UNSUPPORTED_ERR, result |-> NoResult]>>, thrown |-> NoErr]

\* No getBody call.
NoDecode ==
  [rawErr |-> FALSE, body |-> "", ct |-> [given |-> FALSE, s |-> <<>>],
   ran |-> TRUE, calls |-> <<>>, thrown |-> NoErr]

\* The callback getBody passes to getRawBody runs.
GetRawBodyCallback ==
  /\ ~decode.ran
  /\ LET g == GetBody(decode.rawErr, decode.body, decode.ct) IN
       decode' = [decode EXCEPT !.ran = TRUE, !.calls = g.calls, !.thrown = g.thrown]
  /\ UNCHANGED <<config, other, minio, callVars>>

\* ---------------------------------------------------------------- minio writeObject
\* No writeObject call of the minio SDK.
NoMinio ==
  [limit |-> [given |-> FALSE, n |-> 0], calcHash |-> FALSE, src |-> "ended",
   emitted |-> <<>>, total |-> 0, end |-> FALSE, pushed |-> <<>>, hashFed |-> <<>>,
   hashstr |-> NoHash, upload |-> "open"]

\* The call once its listeners are attached and putObject waits for the stream.
NewMinio(limit, calcHash) ==
  [NoMinio EXCEPT !.limit = limit, !.calcHash = calcHash, !.src = "open"]

\* if (options.calcHash) ... else if (options.limit) ... else ...
MinioBranch(m) ==
  IF m.calcHash THEN "hash" ELSE IF ~Falsy(m.limit) THEN "limit" ELSE "direct"

\* transform.push(chunk): dropped once the stream is destroyed.
MinioPush(m, chunk) ==
  IF m.upload = "open" THEN [m EXCEPT !.pushed = Append(@, chunk)] ELSE m

\* req.on('data', ...) of the branch taken; without a branch putObject reads req.
MinioOnData(m, chunk) ==
  IF MinioBranch(m) = "hash"
  THEN [MinioPush(m, chunk) EXCEPT !.hashFed = @ \o chunk]
  ELSE IF MinioBranch(m) = "limit"
  THEN IF m.end THEN m
       ELSE LET m1 == [m EXCEPT !.total = @ + Len(chunk)] IN
              IF Exceeds(m1.total, m.limit)
              THEN [m1 EXCEPT !.end = TRUE, !.upload = TOO_LARGE_ERR]
              ELSE MinioPush(m1, chunk)
  ELSE MinioPush(m, chunk)

\* req.on('end', ...): transform.push(null).
MinioOnEnd(m) ==
  LET close == IF m.upload = "open" THEN "ended" ELSE m.upload IN
  IF MinioBranch(m) = "hash"
  THEN [m EXCEPT !.hashstr = Digest(m.hashFed), !.upload = close]
  ELSE IF MinioBranch(m) = "limit"
  THEN IF m.end THEN m ELSE [m EXCEPT !.upload = close, !.end = TRUE]
  ELSE [m EXCEPT !.upload = close]

\* req.on('error', ...): transform.destroy(err).
MinioOnError(m) ==
  IF m.upload = "open" THEN [m EXCEPT !.upload = SRC_ERR] ELSE m

\* What the promise of writeObject settles with: putObject rejects with the
\* error the uploaded stream was destroyed with and resolves when it ended.
MinioResult(m) ==
  IF m.upload = "open" THEN "pending"
  ELSE IF m.upload = "ended" THEN NoErr
  ELSE m.upload

MinioData(chunk) ==
  /\ minio.src = "open" /\ Len(minio.emitted) < MaxChunks
  /\ minio' = MinioOnData([minio EXCEPT !.emitted = Append(@, chunk)], chunk)
  /\ UNCHANGED <<config, other, decode, callVars>>

MinioEnd ==
  /\ minio.src = "open"
  /\ minio' = MinioOnEnd([minio EXCEPT !.src = "ended"])
  /\ UNCHANGED <<config, other, decode, callVars>>

MinioError ==
  /\ minio.src = "open"
  /\ minio' = MinioOnError([minio EXCEPT !.src = "errored"])
  /\ UNCHANGED <<config, other, decode, callVars>>

\* ---------------------------------------------------------------- second invocation
\* A second _pipeReqeuest invocation running at the same time on its own body
\* and req, with its own closure (complete, received, hash, ctx).  Its req
\* always accepts a write (req.write returns true).
NoOther ==
  [limit |-> [given |-> FALSE, n |-> 0], calcHash |-> FALSE, complete |-> TRUE,
   received |-> 0, hashFed |-> <<>>, listeners |-> FALSE, emitted |-> <<>>,
   written |-> <<>>, ended |-> FALSE, destroyed |-> FALSE, outcome |-> "pending",
   digest |-> NoHash]

\* The state of the invocation when _pipeReqeuest returns.
NewOther(limit, calcHash) ==
  [NoOther EXCEPT !.limit = limit, !.calcHash = calcHash, !.complete = FALSE,
                  !.listeners = TRUE]

\* ctx.done(err) of the second invocation.
OtherDone(o, err) ==
  [o EXCEPT !.complete = TRUE, !.listeners = FALSE,
            !.destroyed = (err # NoErr), !.outcome = err,
            !.digest = IF o.calcHash THEN Digest(o.hashFed) ELSE NoHash]

\* ctx.onData counting in a received counter shared by the invocations
OtherOnDataShared(o, chunk) ==
  IF o.complete THEN o
  ELSE LET o1 == [o EXCEPT !.received = received + Len(chunk)] IN
         IF Exceeds(o1.received, o.limit) THEN OtherDone(o1, TOO_LARGE_ERR)
         ELSE [o1 EXCEPT !.hashFed = IF o.calcHash THEN @ \o chunk ELSE @,
                         !.written = Append(@, chunk)]

\* ctx.onData(chunk) of the second invocation.
OtherOnData(o, chunk) ==
  IF o.complete THEN o
  ELSE LET o1 == [o EXCEPT !.received = @ + Len(chunk)] IN
         IF Exceeds(o1.received, o.limit) THEN OtherDone(o1, TOO_LARGE_ERR)
         ELSE [o1 EXCEPT !.hashFed = IF o.calcHash THEN @ \o chunk ELSE @,
                         !.written = Append(@, chunk)]

\* ctx.onEnd of the second invocation: req.end(); ctx.done().
OtherOnEnd(o) == IF o.complete THEN o ELSE OtherDone([o EXCEPT !.ended = TRUE], NoErr)

\* ctx.onAborted of the second invocation.
OtherOnAborted(o) == IF o.complete THEN o ELSE OtherDone(o, ABORTED_ERR)

\* Its body emits 'data'.
OtherData(chunk) ==
  /\ Idle /\ other.listeners /\ Len(other.emitted) < MaxChunks
  /\ other' = OtherOnData([other EXCEPT !.emitted = Append(@, chunk)], chunk)
  /\ UNCHANGED <<config, decode, minio, callVars>>

\* Its body emits 'end'.
OtherEnd ==
  /\ Idle /\ other.listeners
  /\ other' = OtherOnEnd(other)
  /\ UNCHANGED <<config, decode, minio, callVars>>

\* Its body emits 'aborted'.
OtherAborted ==
  /\ Idle /\ other.listeners
  /\ other' = OtherOnAborted(other)
  /\ UNCHANGED <<config, decode, minio, callVars>>

\* ---------------------------------------------------------------- specification
\* The calls the providers make: writeObject passes a body with the caller's
\* limit and calcHash and returnStream false; readObject and deleteObject pass
\* no body, no limit and no calcHash.
Options ==
  {o \in [hasBody : BOOLEAN, limit : Limits, calcHash : BOOLEAN, returnStream : BOOLEAN] :
     IF o.hasBody THEN ~o.returnStream ELSE ~o.limit.given /\ ~o.calcHash}

\* The locals of _pipeReqeuest and _fetch and the streams when _fetch returns.
InitCall ==
  /\ complete = FALSE /\ received = 0 /\ hashFed = <<>>
  /\ listeners = (RelayPath = "explicit")
  /\ relayCalls = <<>>
  /\ emitted = <<>> /\ flowing = TRUE /\ srcEv = {} /\ pauses = 0 /\ resumes = 0
  /\ srcDestroyed = FALSE
  /\ written = <<>> /\ saturations = 0 /\ needDrain = FALSE
  /\ sinkEnded = (RelayPath = "none")
  /\ sinkDestroyed = FALSE /\ sinkEv = {}
  /\ waiter = "none" /\ waiterErr = NoErr /\ timedOut = FALSE
  /\ done = FALSE /\ hash = NoHash /\ reqErrListener = TRUE /\ resp = "none"
  /\ status = "none"
  /\ tickQueue = <<>> /\ calls = <<>>

\* One call on an SDK configured without timeout.
Init ==
  /\ opts \in Options
  /\ config = [given |-> FALSE, n |-> 0]
  /\ other = NoOther
  /\ decode = NoDecode
  /\ minio = NoMinio
  /\ InitCall

Next ==
  \/ \E n \in 1..MaxChunkLen, sat \in BOOLEAN : SrcData(Chunk(Len(emitted) + 1, n), sat)
  \/ SrcEnd
  \/ SrcAborted
  \/ SrcError
  \/ SrcClose
  \/ SinkError
  \/ SinkClose
  \/ SinkEnd
  \/ SinkAborted
  \/ SinkDrain
  \/ TimerFire
  \/ WaiterThen
  \/ \E e \in {NoErr, PUMP_ERR, REQ_ERR} : PumpCallback(e)
  \/ \E ok \in BOOLEAN : ResponseHandler(ok)
  \/ \E e \in {NoErr, DECODE_ERR}, r \in Payloads \cup {NoResult} : GetBodyCallback(e, r)
  \/ Tick

Spec == Init /\ [][Next]_vars

TypeOK ==
  /\ opts \in Options
  /\ complete \in BOOLEAN /\ listeners \in BOOLEAN /\ flowing \in BOOLEAN
  /\ received \in 0..(MaxChunks * MaxChunkLen)
  /\ Len(emitted) <= MaxChunks /\ Len(written) <= Len(emitted)
  /\ waiter \in {"none", "armed", "ready", "failed"}
  /\ resp \in {"none", "errBody", "okBody", "handled"}
  /\ done \in BOOLEAN

\* The drain timer fires, microtasks and nextTick callbacks run, and the source,
\* while it is not paused, eventually emits 'end'.
LiveSpec ==
  /\ Spec
  /\ WF_vars(Tick) /\ WF_vars(WaiterThen) /\ WF_vars(TimerFire) /\ WF_vars(SrcEnd)

\* Two uploads through the per-chunk relay running at the same time on one SDK
\* instance, whose configuration is drawn from Timeouts, up to the point where
\* the relays have resolved (no response and no req failure yet).  Both have a
\* positive limit.
PositiveLimits == {l \in Limits : l.given /\ l.n > 0}

SdkInit ==
  /\ opts \in {o \in Options : o.hasBody /\ o.limit \in PositiveLimits}
  /\ config \in Timeouts
  /\ \E l \in PositiveLimits, h \in BOOLEAN : other = NewOther(l, h)
  /\ decode = NoDecode
  /\ minio = NoMinio
  /\ InitCall

SdkNext ==
  \/ \E n \in 1..MaxChunkLen, sat \in BOOLEAN : SrcData(Chunk(Len(emitted) + 1, n), sat)
  \/ SrcEnd
  \/ SrcAborted
  \/ SrcError
  \/ SrcClose
  \/ SinkDrain
  \/ TimerFire
  \/ WaiterThen
  \/ Tick
  \/ \E n \in 1..MaxChunkLen : OtherData(Chunk(Len(other.emitted) + 1, n))
  \/ OtherEnd
  \/ OtherAborted

SdkSpec == SdkInit /\ [][SdkNext]_vars

\* getBody on its own: one call for every error of getRawBody, text read and
\* content type.
DecodeInit ==
  /\ opts \in {o \in Options : ~o.hasBody /\ ~o.returnStream}
  /\ config = [given |-> FALSE, n |-> 0]
  /\ other = NoOther
  /\ \E e \in BOOLEAN, b \in Bodies, ct \in ContentTypes :
       decode = [NoDecode EXCEPT !.rawErr = e, !.body = b, !.ct = ct, !.ran = FALSE]
  /\ minio = NoMinio
  /\ InitCall

DecodeNext == GetRawBodyCallback

DecodeSpec == DecodeInit /\ [][DecodeNext]_vars

\* MinioObjectStorageSDK.writeObject on its own, for every limit and calcHash.
MinioInit ==
  /\ opts \in {o \in Options : ~o.hasBody /\ ~o.returnStream}
  /\ config = [given |-> FALSE, n |-> 0]
  /\ other = NoOther
  /\ decode = NoDecode
  /\ \E l \in Limits, h \in BOOLEAN : minio = NewMinio(l, h)
  /\ InitCall

MinioNext ==
  \/ \E n \in 1..MaxChunkLen : MinioData(Chunk(Len(minio.emitted) + 1, n))
  \/ MinioEnd
  \/ MinioError

MinioSpec == MinioInit /\ [][MinioNext]_vars

\* ---------------------------------------------------------------- properties
Explicit == RelayPath = "explicit"

\* What the relay reported: "pending" until its callback is invoked.
Outcome == IF relayCalls = <<>> THEN "pending" ELSE relayCalls[1].err

IsPrefix(s, t) == Len(s) <= Len(t) /\ s = SubSeq(t, 1, Len(s))

\* C1: on the explicit per-chunk path the relay's callback is invoked at most
\* once, whatever events follow: once an outcome is reported, the record of
\* reported outcomes never changes again.
C1_ReportedOnce ==
  [][(Explicit /\ relayCalls # <<>>) => relayCalls' = relayCalls]_vars

\* C1 case: the relay had already reported another outcome when the drain timer
\* of a still pending wait fired.
C1_Witness ==
  /\ Explicit /\ Len(relayCalls) = 1
  /\ timedOut /\ Outcome \notin {TIMEOUT_ERROR, "pending"}

\* C2: under fair scheduling every relay on the explicit path reports an
\* outcome, and so does a relay paused on a sink that does not drain.
C2_Resolves ==
  /\ Explicit ~> (relayCalls # <<>>)
  /\ (Explicit /\ waiter = "armed") ~> (relayCalls # <<>>)

\* C2 case: a relay paused on a saturated sink was resolved by the deadline.
C2_Witness ==
  /\ Explicit /\ relayCalls # <<>>
  /\ timedOut /\ Outcome = TIMEOUT_ERROR /\ saturations = 1 /\ needDrain

\* C3: with a positive limit, once received exceeds the limit the relay has
\* reported TOO_LARGE_ERR, the sink is destroyed, and the sink was given exactly
\* the chunks emitted before the one that crossed the limit.
C3_TooLarge ==
  (Explicit /\ opts.limit.given /\ opts.limit.n > 0 /\ received > opts.limit.n) =>
    /\ Len(relayCalls) = 1 /\ Outcome = TOO_LARGE_ERR
    /\ sinkDestroyed /\ ~sinkEnded
    /\ Len(written) < Len(emitted)
    /\ IsPrefix(written, emitted)
    /\ TotalLen(written) <= opts.limit.n
    /\ received = TotalLen(SubSeq(emitted, 1, Len(written) + 1))

\* C3 case: the limit was crossed and the source emitted a further chunk.
C3_Witness ==
  /\ Explicit /\ opts.limit.n > 0 /\ received > opts.limit.n
  /\ Len(emitted) > Len(written) + 1

\* C4: when the relay has handled the source's 'end' it has reported success,
\* the sink holds every emitted chunk in order, and with hashing enabled the
\* digest is the digest of the concatenation of all emitted chunks.
C4_CompletedDigest ==
  (Explicit /\ "end" \in srcEv) =>
    /\ Len(relayCalls) = 1 /\ Outcome = NoErr
    /\ written = emitted /\ sinkEnded /\ ~sinkDestroyed
    /\ relayCalls[1].hash = IF opts.calcHash THEN Digest(Concat(emitted)) ELSE NoHash

\* C4 case: a hashed upload of the maximal number of chunks, with backpressure
\* on the way, ran to the source's end.
C4_Witness ==
  /\ Explicit /\ "end" \in srcEv /\ opts.calcHash /\ opts.limit.given
  /\ Len(emitted) = MaxChunks /\ saturations >= 1

\* C5 (as claimed): with TOO_LARGE_ERR the relay's callback receives no hash
\* value, and the caller's requestBodyHash is empty (stated for uploads with a
\* positive limit).
C5_NoDigestAtRelay ==
  opts.limit.n > 0 =>
  /\ \A i \in 1..Len(relayCalls) :
       relayCalls[i].err = TOO_LARGE_ERR => relayCalls[i].hash = NoHash
  /\ \A i \in 1..Len(calls) : calls[i].err = TOO_LARGE_ERR => calls[i].hash = NoHash

\* C5 (amended): with TOO_LARGE_ERR the relay's callback receives, when hashing
\* is enabled, the digest of the chunks accepted before the limit was crossed
\* (nothing otherwise); _fetch drops it, and the caller's requestBodyHash and
\* result are empty.
C5_DigestDropped ==
  /\ \A i \in 1..Len(relayCalls) :
       relayCalls[i].err = TOO_LARGE_ERR =>
         /\ relayCalls[i].hash = IF opts.calcHash THEN Digest(Concat(written)) ELSE NoHash
         /\ hash = NoHash
  /\ \A i \in 1..Len(calls) :
       calls[i].err = TOO_LARGE_ERR => calls[i].hash = NoHash /\ calls[i].result = NoResult

\* C5 case: a hashed upload crossed the limit after a chunk had been accepted,
\* and the caller was told.
C5_Witness ==
  /\ opts.calcHash /\ Outcome = TOO_LARGE_ERR /\ written # <<>>
  /\ \E i \in 1..Len(calls) : calls[i].err = TOO_LARGE_ERR

\* C6: a relay started with limit absent, 0 (or negative) never reports
\* TOO_LARGE_ERR, whatever calcHash is.
C6_Unbounded ==
  (~opts.limit.given \/ opts.limit.n <= 0) => Outcome # TOO_LARGE_ERR

\* C7: when the drain timer fires on a relay still running, the relay reports
\* TIMEOUT_ERROR; from then on the source stays paused, is never resumed, and
\* no further chunk is written.
C7_Timeout ==
  [][/\ (~timedOut /\ timedOut' /\ ~complete) => Outcome' = TIMEOUT_ERROR
     /\ Outcome = TIMEOUT_ERROR =>
          /\ ~flowing /\ ~flowing'
          /\ resumes' = resumes /\ written' = written]_vars

\* C7 case: the relay timed out and the sink emitted events afterwards.
C7_Witness ==
  /\ Outcome = TIMEOUT_ERROR /\ ~flowing /\ sinkEv # {} /\ resumes < pauses

\* C8: body.pause() is called once per saturated write, the source is resumed
\* once per drain wait that ended Ready while the relay was running, which is
\* all of them (N pauses, N resumes) when the upload ran to the source's end;
\* the sink receives the chunks in the order the source emitted them.
C8_Backpressure ==
  Explicit =>
    /\ pauses = saturations
    /\ resumes <= pauses /\ pauses <= resumes + 1
    /\ flowing <=> (resumes = pauses)
    /\ "end" \in srcEv => resumes = saturations
    /\ IsPrefix(written, emitted)

\* C8 case: every write of a completed upload saturated the sink.
C8_Witness ==
  /\ Explicit /\ "end" \in srcEv /\ Outcome = NoErr
  /\ saturations = MaxChunks /\ resumes = MaxChunks /\ pauses = MaxChunks

\* C9: the caller's callback is invoked (or queued for invocation) at most once
\* per _fetch call (stated for calls whose limit, when given, is positive).
C9_CallbackOnce ==
  (opts.limit.given => opts.limit.n > 0) => Len(calls) + Len(tickQueue) <= 1

\* C10: if the relay reported a failure before the response handler ran, req is
\* destroyed and the only callback the caller gets, now or later, carries that
\* failure.
C10_RelayFailureSurfaces ==
  (Explicit /\ relayCalls # <<>> /\ Outcome # NoErr /\ relayCalls[1].respAt = "none") =>
    /\ sinkDestroyed
    /\ Len(calls) + Len(tickQueue) = 1
    /\ \A i \in 1..Len(calls) : calls[i].err = Outcome /\ calls[i].hash = NoHash
    /\ \A i \in 1..Len(tickQueue) : tickQueue[i].err = Outcome

\* C10 case: the relay failed first, the caller was told, and req emitted its
\* own 'error' afterwards.
C10_Witness ==
  /\ Explicit /\ relayCalls # <<>> /\ relayCalls[1].respAt = "none"
  /\ Outcome \in {ABORTED_ERR, SRC_ERR, TOO_LARGE_ERR, TIMEOUT_ERROR}
  /\ "error" \in sinkEv /\ Len(calls) = 1

\* Every callback of the call, delivered or still queued, in order.
Completions ==
  [i \in 1..(Len(calls) + Len(tickQueue)) |->
     IF i <= Len(calls) THEN [err |-> calls[i].err, result |-> calls[i].result]
     ELSE [err |-> tickQueue[i - Len(calls)].err, result |-> tickQueue[i - Len(calls)].result]]

\* C11: a response with a status outside [200,300) always goes through getBody,
\* whatever returnStream is; when getBody calls back on a call not yet done the
\* caller is given the status error with the decoded payload (or null), and a
\* call that saw such a response never gets a success or a live stream.
C11_ErrorStatus ==
  [][/\ (status = "none" /\ status' = "bad") => resp' = "errBody"
     /\ (resp = "errBody" /\ resp' = "handled" /\ ~done) =>
          /\ done'
          /\ \E r \in Payloads \cup {NoResult} :
               tickQueue' = Append(tickQueue, [err |-> STATUS_ERR, result |-> r, withHash |-> TRUE])
     /\ status' = "bad" =>
          \A i \in 1..Len(Completions') :
            Completions'[i].err # NoErr /\ Completions'[i].result # "stream"]_vars

\* C11 case: a returnStream call got an error status and the caller received
\* the status error with the decoded error document.
C11_Witness ==
  /\ status = "bad" /\ opts.returnStream /\ resp = "handled"
  /\ calls = <<[err |-> STATUS_ERR, result |-> "Error:Other", hash |-> NoHash]>>

\* C12: the caller's callback is invoked only by a queued process.nextTick
\* callback, in a step of its own: a step that invokes it takes the head of
\* the queue and runs no handler (no stream event, response, getBody result,
\* timer or promise reaction happens in it), and a step that completes the
\* call (sets done) only queues the callback.
C12_Deferred ==
  [][/\ calls' # calls =>
          /\ tickQueue # <<>> /\ tickQueue' = Tail(tickQueue)
          /\ Len(calls') = Len(calls) + 1
          /\ calls'[Len(calls')].err = Head(tickQueue).err
          /\ UNCHANGED <<done, hash, resp, status, reqErrListener, relayVars, srcVars,
                         sinkVars, waitVars>>
     /\ (~done /\ done') => (calls' = calls /\ Len(tickQueue') = Len(tickQueue) + 1)]_vars

\* C12 case: the response handler completed a returnStream call itself and the
\* callback is queued, not yet invoked.
C12_Witness ==
  /\ opts.returnStream /\ status = "ok" /\ resp = "handled" /\ done
  /\ Len(tickQueue) = 1 /\ calls = <<>>

\* C13: a pending waitForDrain settles by the first trigger that fires: sink
\* 'error' rejects with that error, sink 'close' rejects with 'closed', sink
\* 'end' or 'drain' resolves, the timer rejects with TIMEOUT_ERROR; once it has
\* settled no later sink event and no timer changes the outcome, which only
\* goes away when the promise reaction consumes it.
C13_SettlesOnce ==
  [][/\ (waiter = "armed" /\ waiter' # "armed") =>
          IF "error" \in sinkEv' \ sinkEv THEN waiter' = "failed" /\ waiterErr' = REQ_ERR
          ELSE IF "close" \in sinkEv' \ sinkEv THEN waiter' = "failed" /\ waiterErr' = CLOSED_ERR
          ELSE IF "end" \in sinkEv' \ sinkEv THEN waiter' = "ready" /\ waiterErr' = NoErr
          ELSE IF needDrain /\ ~needDrain' THEN waiter' = "ready" /\ waiterErr' = NoErr
          ELSE /\ timedOut' /\ waiter' = "none" /\ sinkEv' = sinkEv
               /\ (~complete => relayCalls' = Append(relayCalls,
                      [err |-> TIMEOUT_ERROR, hash |-> relayCalls'[Len(relayCalls')].hash,
                       respAt |-> resp]))
     /\ waiter \in {"ready", "failed"} =>
          /\ timedOut' = timedOut
          /\ \/ waiter' = waiter /\ waiterErr' = waiterErr
             \/ waiter' = "none" /\ sinkEv' = sinkEv
     /\ waiter = "none" => (waiter' \in {"none", "armed"} /\ timedOut' = timedOut)
     /\ (timedOut' /\ ~timedOut) => waiter = "armed"]_vars

\* C13 case: the waiter was resolved by 'drain' and the sink then closed; the
\* outcome is still Ready.
C13_Witness ==
  /\ waiter = "ready" /\ ~needDrain
  /\ "close" \in sinkEv /\ "end" \notin sinkEv

\* C14: in a readObject call (no body, returnStream) the promise resolves null
\* exactly when _fetch reported an error together with a decoded payload whose
\* Error.Code is 'NoSuchKey'; every other error reported by _fetch (a request
\* error, an error status whose payload was empty, undecodable, or carried
\* another code) rejects it, and a nil error resolves it with the stream.
C14_NullIffNoSuchKey ==
  (~opts.hasBody /\ opts.returnStream /\ calls # <<>>) =>
     LET c == calls[1] IN
       /\ ReadObjectPromise = "null" <=> (c.err # NoErr /\ c.result = "Error:NoSuchKey")
       /\ (c.err # NoErr /\ c.result # "Error:NoSuchKey") => ReadObjectPromise = "rejected"
       /\ c.err = NoErr => (ReadObjectPromise = "resolved" /\ c.result = "stream")
       /\ ReadObjectPromise = "null" => (status = "bad" /\ c.err = STATUS_ERR)
       /\ c.err = REQ_ERR => ReadObjectPromise = "rejected"

\* C14 case: the storage answered an error status with a decoded NoSuchKey
\* payload and readObject resolved null.
C14_Witness ==
  /\ ~opts.hasBody /\ opts.returnStream /\ status = "bad"
  /\ calls # <<>> /\ calls[1].result = "Error:NoSuchKey"
  /\ ReadObjectPromise = "null"

\* C15 (as claimed): on the explicit path, when body emitted 'aborted', 'error'
\* or 'close' and no 'end', the relay reported ABORTED_ERR or the stream's
\* error, never a nil error, and req was destroyed.
C15_SourceFailure ==
  (Explicit /\ srcEv \cap {"aborted", "error", "close"} # {} /\ "end" \notin srcEv) =>
     /\ Outcome \in {ABORTED_ERR, SRC_ERR}
     /\ sinkDestroyed

\* C16 (as claimed): on the explicit path, a 'close' or 'error' of req while
\* the relay is unresolved never makes it report a nil error, and when it
\* resolves the relay req is destroyed; when a drain waiter rejected with
\* 'closed' runs its reaction, the relay's outcome is that 'closed' error.
C16_SinkFailure ==
  [][/\ (Explicit /\ ~complete /\ (sinkEv' \ sinkEv) \cap {"close", "error"} # {}) =>
          /\ Outcome' # NoErr
          /\ complete' => sinkDestroyed'
     /\ (waiter = "failed" /\ waiterErr = CLOSED_ERR /\ waiter' = "none") =>
          Outcome' = CLOSED_ERR]_vars

\* C17 (as claimed): whenever the relay reported a nil error, body's 'end' was
\* observed, req.end() was called and every chunk body emitted was written to
\* req (req itself emitting 'end', which an http request does not do, is left
\* out of the statement).
C17_CompletedAfterEnd ==
  (Outcome = NoErr /\ "end" \notin sinkEv) =>
     /\ sinkEnded
     /\ Explicit => ("end" \in srcEv /\ written = emitted)

\* C18 (as claimed): once the relay on the explicit path has resolved, none of
\* its listeners on body and req is attached and no drain waiter is pending
\* with its four req listeners and its timer still armed.
C18_Disarmed ==
  (Explicit /\ complete) => (~listeners /\ waiter # "armed")

\* C19 (as claimed): when the drain timer fires while the relay is unresolved,
\* or the reaction to a waiter rejected by req 'error' or 'close' runs, the
\* relay's outcome is that failure and both body and req are destroyed.
C19_BothEndsDestroyed ==
  [][/\ (Explicit /\ ~complete /\ waiter = "armed" /\ timedOut' /\ waiter' = "none") =>
          (Outcome' = TIMEOUT_ERROR /\ sinkDestroyed' /\ srcDestroyed')
     /\ (Explicit /\ waiter = "failed" /\ waiter' = "none") =>
          (Outcome' = waiterErr /\ sinkDestroyed' /\ srcDestroyed')]_vars

\* C20: when calcHash was requested, every callback with a nil error, queued
\* or already invoked, carries a non-empty requestBodyHash; and when a 2xx
\* response is decoded without error while the call is not done and no hash
\* has been stored, the callback queued is the 'calculated hash is empty'
\* error, not a success.
C20_SuccessHasHash ==
  [][/\ \A i \in 1..Len(calls') :
          (opts.calcHash /\ calls'[i].err = NoErr) => calls'[i].hash # NoHash
     /\ \A i \in 1..Len(tickQueue') :
          (opts.calcHash /\ tickQueue'[i].err = NoErr) =>
             (tickQueue'[i].withHash /\ hash' # NoHash)
     /\ (opts.calcHash /\ ~done /\ hash = NoHash /\ resp = "okBody" /\ resp' = "handled") =>
          /\ Len(tickQueue') = Len(tickQueue) + 1
          /\ tickQueue'[Len(tickQueue')].err \in {HASH_EMPTY_ERR, DECODE_ERR}]_vars

\* C20 case: a calcHash upload whose relay completed before the response was
\* decoded; the success delivered to the caller carries the digest of the body.
C20_Witness ==
  /\ opts.calcHash /\ status = "ok" /\ Outcome = NoErr /\ written # <<>>
  /\ calls = <<[err |-> NoErr, result |-> "decoded", hash |-> Digest(Concat(written))]>>

\* C21 (as claimed): no callback of a _fetch call, queued or invoked, carries
\* the 'calculated hash is empty' error, in whatever order the response and
\* the relay's completion arrive.
C21_HashEmptyUnreachable ==
  \A i \in 1..Len(Completions) : Completions[i].err # HASH_EMPTY_ERR

\* C22 (as claimed): once _fetch is done and its callback has been invoked,
\* the 'error' listener it put on req and the listeners of the body relay it
\* started are detached.
C22_DoneTearsDown ==
  (done /\ calls # <<>>) => (~reqErrListener /\ ~listeners)

\* C23 (as claimed): with hashing enabled and a positive limit, when the relay
\* reported TOO_LARGE_ERR the digest had been fed every chunk up to and
\* including the one that pushed received over the limit.
C23_DigestIncludesCrossing ==
  (Explicit /\ opts.calcHash /\ opts.limit.n > 0 /\ Outcome = TOO_LARGE_ERR) =>
     hashFed = Concat(SubSeq(emitted, 1, Len(written) + 1))

\* C23 (amended): with hashing enabled the digest is fed a chunk only after the
\* size check let it pass, so it always covers exactly the chunks written to
\* req; when TOO_LARGE_ERR is reported the chunk that crossed the limit is in
\* neither, and the digest handed to the relay's callback is that of the
\* chunks written.
C23_DigestExcludesCrossing ==
  (Explicit /\ opts.calcHash) =>
     /\ hashFed = Concat(written)
     /\ Outcome = TOO_LARGE_ERR =>
          /\ Len(written) < Len(emitted)
          /\ relayCalls[1].hash = Digest(Concat(written))
          /\ hashFed # Concat(SubSeq(emitted, 1, Len(written) + 1))

\* C23 case: one chunk was accepted and hashed, the next crossed the limit.
C23_Witness ==
  /\ Explicit /\ opts.calcHash /\ opts.limit.n > 0 /\ Outcome = TOO_LARGE_ERR
  /\ Len(written) = 1 /\ hashFed = written[1] /\ Len(emitted) = 2

\* C24 (as claimed): in a call on an SDK configured without a timeout, the
\* delay of the timer of a pending drain wait of the relay is 10000 ms.
C24_DefaultTenSeconds ==
  (waiter = "armed" /\ ~config.given) => DrainDeadline = DEFAULT_DRAIN_TIMEOUT

\* C24 (amended): the delay of the timer of a pending drain wait of the relay
\* is the SDK's configured timeout, and 30000 ms when none is configured; the
\* 10000 ms default of waitForDrain itself does not apply to the relay.
C24_DefaultThirtySeconds ==
  waiter = "armed" =>
     /\ DrainDeadline = IF config.given THEN config.n ELSE DEFAULT_TIMEOUT
     /\ ~config.given => DrainDeadline # DEFAULT_DRAIN_TIMEOUT

\* C24 case: a drain wait is pending in a call of an SDK configured without a
\* timeout.
C24_Witness ==
  /\ waiter = "armed" /\ ~config.given
  /\ DrainDeadline = DEFAULT_TIMEOUT

\* The second invocation's state as its own arguments and events determine it.
OtherAlone ==
  /\ IsPrefix(other.written, other.emitted)
  /\ other.received = TotalLen(other.emitted)
  /\ other.hashFed = IF other.calcHash THEN Concat(other.written) ELSE <<>>
  /\ other.outcome = TOO_LARGE_ERR <=> TotalLen(other.emitted) > other.limit.n
  /\ other.outcome = TOO_LARGE_ERR =>
       (Len(other.written) + 1 = Len(other.emitted) /\ other.destroyed)
  /\ other.outcome # TOO_LARGE_ERR => other.written = other.emitted
  /\ other.outcome = NoErr <=> other.ended
  /\ other.complete <=> other.outcome # "pending"
  /\ other.listeners <=> ~other.complete
  /\ other.complete =>
       other.digest = IF other.calcHash THEN Digest(Concat(other.written)) ELSE NoHash

\* The first invocation's relay state as its own arguments and events determine it.
CallAlone ==
  /\ IsPrefix(written, emitted)
  /\ received = TotalLen(SubSeq(emitted, 1,
                   IF Outcome = TOO_LARGE_ERR THEN Len(written) + 1 ELSE Len(written)))
  /\ hashFed = IF opts.calcHash THEN Concat(written) ELSE <<>>
  /\ Outcome = TOO_LARGE_ERR <=> received > opts.limit.n
  /\ complete <=> Outcome # "pending"
  /\ listeners <=> ~complete

\* C25: with two invocations in flight on distinct streams, a step that changes
\* the state of one (completion flag, received counter, digest input,
\* listeners, outcome, streams) leaves the state of the other unchanged, and
\* each invocation's state is the one its own limit, calcHash and events
\* produce.
C25_NoInterference ==
  [][/\ other' # other => UNCHANGED callVars
     /\ callVars' # callVars => other' = other
     /\ OtherAlone' /\ CallAlone']_vars

\* C25 case: both invocations received data; the first is waiting for drain
\* below its limit while the second crossed its own limit and resolved.
C25_Witness ==
  /\ ~complete /\ waiter = "armed" /\ received > 0 /\ received <= opts.limit.n
  /\ other.outcome = TOO_LARGE_ERR /\ other.received > received
  /\ other.limit.n < opts.limit.n

\* C26 (as claimed): getBody invokes its callback exactly once; when getRawBody
\* reported no error, a content type that is application/xml after its
\* parameters are stripped is decoded as XML, application/json as JSON, and
\* any other or absent content type yields the unsupported-content-type
\* error, whatever the text read, the empty text included.
C26_Dispatch ==
  decode.ran =>
     /\ Len(decode.calls) = 1 /\ decode.thrown = NoErr
     /\ ~decode.rawErr =>
          LET t == IF decode.ct.given THEN StripParams(decode.ct.s) ELSE <<>> IN
            IF t = <<"application/xml">>
            THEN decode.calls[1].err = NoErr <=> decode.body = "xml"
            ELSE IF t = <<"application/json">>
            THEN decode.calls[1].err = NoErr <=> decode.body = "json"
            ELSE decode.calls[1].err = UNSUPPORTED_ERR

\* C27: on the explicit path with a positive limit, in every state the bytes
\* written to req are at most the limit and are exactly the bytes counted in
\* received for the chunks that were accepted (received exceeds them by the
\* one chunk that crossed the limit, if any), and no step decreases received.
C27_WrittenWithinLimit ==
  [][(Explicit /\ opts.limit.given /\ opts.limit.n > 0) =>
       /\ TotalLen(written') <= opts.limit.n
       /\ TotalLen(written') =
            IF received' > opts.limit.n
            THEN received' - Len(emitted'[Len(written') + 1])
            ELSE received'
       /\ received' >= received
       /\ Len(written') >= Len(written)]_vars

\* C27 case: two chunks were accepted and fill the limit exactly.
C27_Witness ==
  /\ Explicit /\ opts.limit.given /\ opts.limit.n > 0
  /\ Len(written) = 2 /\ TotalLen(written) = opts.limit.n /\ received = opts.limit.n

\* C28 (as claimed): in a call with a request body, whenever the caller's
\* callback has been invoked with a nil error the relay of that call has
\* reported Completed, so that no relay failure can follow a delivered
\* success (stated for calls without limit or with a positive one).
C28_SuccessAfterRelay ==
  (/\ opts.hasBody /\ (opts.limit.given => opts.limit.n > 0)
   /\ \E i \in 1..Len(calls) : calls[i].err = NoErr) => Outcome = NoErr

\* C29 (as claimed): in a writeObject call of the minio SDK with a positive
\* limit, with or without calcHash, once the source has emitted more bytes
\* than the limit the call fails with TOO_LARGE_ERR, and the chunks pushed to
\* the uploaded stream stay within the limit.
C29_MinioLimit ==
  (minio.limit.given /\ minio.limit.n > 0 /\ TotalLen(minio.emitted) > minio.limit.n) =>
     /\ MinioResult(minio) = TOO_LARGE_ERR
     /\ TotalLen(minio.pushed) <= minio.limit.n
====
